---- MODULE Spec2Model ----
(***************************************************************************)
(* A model of the scraping scaffolding of realtyvest-avm:                  *)
(*   - retry_on_failure and RateLimiter    (src/data/scrapers/utils.py)     *)
(*   - BaseScraper cache / validate / key  (src/data/scrapers/base_scraper) *)
(*   - generate_cache_key                  (src/utils/helpers.py)           *)
(* Each component has its own specification (SpecRetry, SpecRate, ...);    *)
(* the variables of the other components stay at their idle values.        *)
(***************************************************************************)
EXTENDS Integers, Sequences, FiniteSets, TLC

VARIABLES
    \* ---- retry_on_failure.wrapper
    max_retries,        \* decorator argument
    backoff_factor,     \* decorator argument
    attempt,            \* loop variable of "for attempt in range(max_retries + 1)"
    last_exception,     \* local of wrapper, None before the first failure
    r_events,           \* what the wrapper did so far: calls of func and sleeps
    r_result,           \* how the wrapper ended: None, a return or a raise
    \* ---- RateLimiter
    min_delay,          \* RateLimiter.min_delay
    max_delay,          \* RateLimiter.max_delay
    last_request_time,  \* RateLimiter.last_request_time
    clock,              \* the value time.time() returns
    w_pc,               \* per thread: where it is inside wait()
    w_wake,             \* per thread: the time its time.sleep() may return
    w_returns,          \* the times at which wait() calls returned, in order
    w_began,            \* per thread: how many wait() had returned when it read last_request_time
    w_calls,            \* per wait() that returned: its thread and its w_began
    \* ---- BaseScraper.validate_data
    v_df,               \* argument df
    v_req,              \* argument required_columns
    v_out,              \* None, the exception raised or the table returned
    \* ---- generate_cache_key (helpers.py and BaseScraper)
    k_args,             \* positional arguments
    k_kwargs,           \* keyword arguments, in the order the caller wrote them
    k_kwargs2,          \* the same keyword arguments in another order
    k_ym,               \* datetime.now().strftime("%Y%m")
    k_cls,              \* self.__class__.__name__
    k_keys,             \* the keys computed for both orders
    \* ---- BaseScraper: cache and scrape
    cache_enabled,      \* BaseScraper.cache_enabled
    cache_ttl_days,     \* BaseScraper.cache_ttl_days
    files,              \* the files of cache_dir: cache key -> file or no file
    now,                \* datetime.now(), in ticks (TicksPerDay ticks a day)
    s_pc,               \* where the running scrape() is: idle, fetch, parse, save
    s_call,             \* the scrape() call that runs or ran last
    s_prev,             \* the scrape() call before it
    s_events,           \* the calls scrape() made, in order, in the call s_call
    \* ---- SessionManager used in a with block
    m_pc,               \* new, body, exit (in __exit__), closed (close() returned), caller
    m_session,          \* self.session: "none", "open" (may hold connections), "closed"
    m_timeout,          \* self.timeout
    m_body,             \* what the block did so far
    m_exc,              \* the exception that ended the block, or "none"
    m_out,              \* what the caller of the with statement got, or "none"
    \* ---- logging: setup_logger
    loggers,            \* logging.getLogger's registry: name -> level and handlers
    l_call              \* the last call of setup_logger and the logger before it

retryVars == <<max_retries, backoff_factor, attempt, last_exception, r_events, r_result>>
rateVars  == <<min_delay, max_delay, last_request_time, clock, w_pc, w_wake, w_returns,
              w_began, w_calls>>
valVars   == <<v_df, v_req, v_out>>
keyVars   == <<k_args, k_kwargs, k_kwargs2, k_ym, k_cls, k_keys>>
scrVars   == <<cache_enabled, cache_ttl_days, files, now, s_pc, s_call, s_prev, s_events>>
sessVars  == <<m_pc, m_session, m_timeout, m_body, m_exc, m_out>>
logVars   == <<loggers, l_call>>
vars == <<retryVars, rateVars, valVars, keyVars, scrVars, sessVars, logVars>>
notRetryVars == <<rateVars, valVars, keyVars, scrVars, sessVars, logVars>>
notRateVars  == <<retryVars, valVars, keyVars, scrVars, sessVars, logVars>>
notValVars   == <<retryVars, rateVars, keyVars, scrVars, sessVars, logVars>>
notKeyVars   == <<retryVars, rateVars, valVars, scrVars, sessVars, logVars>>
notScrVars   == <<retryVars, rateVars, valVars, keyVars, sessVars, logVars>>
notSessVars  == <<retryVars, rateVars, valVars, keyVars, scrVars, logVars>>
notLogVars   == <<retryVars, rateVars, valVars, keyVars, scrVars, sessVars>>

\* Python's None, where an outcome (a return or an exception) is expected
None == [how |-> "none", val |-> "None", at |-> 0]

Last(s) == s[Len(s)]

RECURSIVE Pow(_, _)
\* Python's b ** k for integers b >= 0, k >= 0 (0 ** 0 is 1)
Pow(b, k) == IF k = 0 THEN 1 ELSE b * Pow(b, k - 1)

(***************************************************************************)
(* retry_on_failure (utils.py 52-89)                                       *)
(***************************************************************************)
MaxRetriesBound == 3
MaxBackoff == 2

\* Subclasses of requests.exceptions.RequestException func may raise
NetworkErrors == {"ConnectionError", "Timeout"}
\* Exceptions that are not RequestException
OtherErrors == {"ValueError"}
\* What func may return
ReturnValues == {"None", "response"}

\* One invocation of func ends in a return or in a raised exception.  An
\* exception is an object: `at` tells the invocation that created it.
Return(v)   == [how |-> "return", val |-> v, at |-> 0]
Raise(k, i) == [how |-> "raise", val |-> k, at |-> i]

\* raise None in Python 3 is a TypeError raised at the raise statement
RaiseNoneEffect == [how |-> "raise", val |-> "TypeError", at |-> -1]

\* except requests.exceptions.RequestException as e
IsRequestException_CatchAll(e) == TRUE
IsRequestException(e) == e.val \in NetworkErrors

\* range(max_retries + 1)
RangeEnd_OffByOne(n) == n
RangeEnd(n) == n + 1

\* delay = backoff_factor ** attempt
Delay_Linear(b, k) == b * k
Delay(b, k) == Pow(b, k)

\* last_exception = e
Remember_First(old, e) == IF old = None THEN e ELSE old
Remember(old, e) == e

CallEv(o)  == [ev |-> "call", out |-> o]
SleepEv(d) == [ev |-> "sleep", out |-> d]

RetryIdle ==
    /\ max_retries = 0
    /\ backoff_factor = 0
    /\ attempt = 0
    /\ last_exception = None
    /\ r_events = <<>>
    /\ r_result = None

\* wrapper is entered: last_exception = None, the loop starts at attempt 0
RetryInit ==
    /\ max_retries \in 0..MaxRetriesBound
    /\ backoff_factor \in 0..MaxBackoff
    /\ attempt = 0
    /\ last_exception = None
    /\ r_events = <<>>
    /\ r_result = None

InLoop == r_result = None /\ attempt < RangeEnd(max_retries)

\* return func(*args, **kwargs)
FuncReturns ==
    /\ InLoop
    /\ \E v \in ReturnValues :
          /\ r_events' = Append(r_events, CallEv(Return(v)))
          /\ r_result' = Return(v)
    /\ UNCHANGED <<max_retries, backoff_factor, attempt, last_exception>>
    /\ UNCHANGED notRetryVars

\* func raises; the except clause decides whether the wrapper handles it
FuncRaises ==
    /\ InLoop
    /\ \E k \in NetworkErrors \cup OtherErrors :
         LET e == Raise(k, attempt + 1) IN
         IF IsRequestException(e)
         THEN /\ last_exception' = Remember(last_exception, e)
              /\ attempt' = attempt + 1
              /\ r_result' = None
              /\ IF attempt < max_retries
                 THEN r_events' = r_events \o
                         <<CallEv(e), SleepEv(Delay(backoff_factor, attempt))>>
                 ELSE r_events' = Append(r_events, CallEv(e))
         ELSE /\ r_events' = Append(r_events, CallEv(e))
              /\ r_result' = e
              /\ UNCHANGED <<attempt, last_exception>>
    /\ UNCHANGED <<max_retries, backoff_factor>>
    /\ UNCHANGED notRetryVars

\* the loop is over: raise last_exception
RaiseLast ==
    /\ r_result = None
    /\ attempt >= RangeEnd(max_retries)
    /\ r_result' = IF last_exception = None THEN RaiseNoneEffect ELSE last_exception
    /\ UNCHANGED <<max_retries, backoff_factor, attempt, last_exception, r_events>>
    /\ UNCHANGED notRetryVars

(***************************************************************************)
(* Properties of retry_on_failure                                          *)
(***************************************************************************)
IsCall(i)  == r_events[i].ev = "call"
IsSleep(i) == r_events[i].ev = "sleep"
CallIdx  == {i \in 1..Len(r_events) : IsCall(i)}
SleepIdx == {i \in 1..Len(r_events) : IsSleep(i)}
NumCalls == Cardinality(CallIdx)
\* the number of calls among the first i events
CallsUpTo(i) == Cardinality({j \in CallIdx : j <= i})
SleepsUpTo(i) == Cardinality({j \in SleepIdx : j <= i})
NetworkFailure(i) ==
    IsCall(i) /\ r_events[i].out.how = "raise" /\ r_events[i].out.val \in NetworkErrors
OtherFailure(i) ==
    IsCall(i) /\ r_events[i].out.how = "raise" /\ r_events[i].out.val \in OtherErrors
Success(i) == IsCall(i) /\ r_events[i].out.how = "return"
AllNetworkFailures == \A i \in CallIdx : NetworkFailure(i)
Ended == r_result # None

\* C2: an operation that raises a network error on every invocation is
\* invoked exactly max_retries + 1 times, never more, and the wrapper then
\* ends by raising the very exception object of the last invocation.
C2_RetryExhaustion ==
    AllNetworkFailures =>
        /\ NumCalls <= max_retries + 1
        /\ Ended => /\ NumCalls = max_retries + 1
                    /\ IsCall(Len(r_events))
                    /\ r_result = r_events[Len(r_events)].out
                    /\ r_result.at = max_retries + 1

C2_Witness ==
    /\ Ended
    /\ AllNetworkFailures
    /\ max_retries = 3
    /\ NumCalls = 4
    /\ r_result.how = "raise"
    /\ r_result.val \in NetworkErrors

\* C8: when an invocation raises an error that is not a network error, that
\* call is the last thing the wrapper does (no later call, no later sleep)
\* and the wrapper ends raising that same exception object.
C8_NonNetworkNotRetried ==
    \A i \in 1..Len(r_events) :
        OtherFailure(i) => /\ i = Len(r_events)
                           /\ r_result = r_events[i].out

C8_Witness ==
    /\ Len(r_events) >= 3
    /\ OtherFailure(Len(r_events))
    /\ attempt < max_retries
    /\ r_result.val \in OtherErrors

\* C9: the sleeps are 1, b, b^2, ... in this order (the first is 1 and each
\* next one is b times the one before), every sleep directly follows a failed
\* network call, every failed call numbered 1..n is directly followed by one
\* sleep and then by the next call or nothing yet, and call n + 1 is followed
\* by nothing.
C9_BackoffSchedule ==
    /\ \A i \in SleepIdx :
          /\ i > 1
          /\ NetworkFailure(i - 1)
          /\ SleepsUpTo(i) = CallsUpTo(i)
          /\ SleepsUpTo(i) <= max_retries
          /\ IF SleepsUpTo(i) = 1
             THEN r_events[i].out = 1
             ELSE r_events[i].out = backoff_factor * r_events[i - 2].out
    /\ \A i \in CallIdx :
          /\ (NetworkFailure(i) /\ CallsUpTo(i) <= max_retries)
                => (i < Len(r_events) /\ IsSleep(i + 1))
          /\ CallsUpTo(i) = max_retries + 1 => i = Len(r_events)
          /\ i > 1 => IsSleep(i - 1)

C9_Witness ==
    /\ backoff_factor = 2
    /\ max_retries = 3
    /\ Ended
    /\ NumCalls = 4
    /\ Cardinality(SleepIdx) = 3
    /\ r_events[2].out = 1
    /\ r_events[4].out = 2
    /\ r_events[6].out = 4

\* C10: while the operation has only raised network errors, at most
\* max_retries of them, the wrapper has not ended and is about to invoke it
\* again; and when an invocation succeeds the wrapper ends at once returning
\* exactly that value, after as many invocations as there were failures plus
\* one, none of whose errors reaches the caller.
C10_RetrySuccess ==
    /\ (AllNetworkFailures /\ NumCalls <= max_retries)
          => (~Ended /\ attempt = NumCalls /\ attempt < max_retries + 1)
    /\ \A i \in CallIdx :
          Success(i) => /\ i = Len(r_events)
                        /\ r_result = r_events[i].out
                        /\ r_result.how = "return"
                        /\ \A j \in CallIdx : j < i => NetworkFailure(j)
                        /\ NumCalls = Cardinality({j \in CallIdx : NetworkFailure(j)}) + 1
                        /\ NumCalls <= max_retries + 1

C10_Witness ==
    /\ max_retries = 3
    /\ NumCalls = 4
    /\ Success(Len(r_events))
    /\ r_result = Return("response")

(***************************************************************************)
(* RateLimiter (utils.py 17-49)                                            *)
(***************************************************************************)
MaxDelay == 2
MaxClock == 8
EpochStart == 3
Threads == {1, 2}

RateIdle ==
    /\ min_delay = 0
    /\ max_delay = 0
    /\ last_request_time = 0
    /\ clock = 0
    /\ w_pc = [t \in Threads |-> "idle"]
    /\ w_wake = [t \in Threads |-> 0]
    /\ w_returns = <<>>
    /\ w_began = [t \in Threads |-> 0]
    /\ w_calls = <<>>

\* RateLimiter.__init__; time.time() is far from 0 when the program runs
RateInit ==
    /\ min_delay \in 1..MaxDelay
    /\ max_delay \in 1..MaxDelay
    /\ last_request_time = 0
    /\ clock = EpochStart
    /\ w_pc = [t \in Threads |-> "idle"]
    /\ w_wake = [t \in Threads |-> 0]
    /\ w_returns = <<>>
    /\ w_began = [t \in Threads |-> 0]
    /\ w_calls = <<>>

\* random.uniform(a, b): a value between a and b, whichever is the larger
Uniform_FromZero(a, b) == 0..(IF a <= b THEN b ELSE a)
Uniform(a, b) == IF a <= b THEN a..b ELSE b..a

\* lines 38-47: read the clock, draw the delay, start sleeping if needed
WaitBegin(t) ==
    /\ w_pc[t] = "idle"
    /\ \E delay \in Uniform(min_delay, max_delay) :
         LET current_time == clock
             time_since_last == current_time - last_request_time
         IN IF time_since_last < delay
            THEN /\ w_pc' = [w_pc EXCEPT ![t] = "sleep"]
                 /\ w_wake' = [w_wake EXCEPT ![t] = clock + (delay - time_since_last)]
            ELSE /\ w_pc' = [w_pc EXCEPT ![t] = "stamp"]
                 /\ UNCHANGED w_wake
    /\ w_began' = [w_began EXCEPT ![t] = Len(w_returns)]
    /\ UNCHANGED <<min_delay, max_delay, last_request_time, clock, w_returns, w_calls>>
    /\ UNCHANGED notRateVars

\* time.sleep(sleep_time) returns once at least sleep_time has passed
WaitWake(t) ==
    /\ w_pc[t] = "sleep"
    /\ clock >= w_wake[t]
    /\ w_pc' = [w_pc EXCEPT ![t] = "stamp"]
    /\ UNCHANGED <<min_delay, max_delay, last_request_time, clock, w_wake, w_returns,
                   w_began, w_calls>>
    /\ UNCHANGED notRateVars

\* line 49: self.last_request_time = time.time(), and wait() returns
WaitStamp(t) ==
    /\ w_pc[t] = "stamp"
    /\ last_request_time' = clock
    /\ w_returns' = Append(w_returns, clock)
    /\ w_calls' = Append(w_calls, [thread |-> t, began |-> w_began[t]])
    /\ w_pc' = [w_pc EXCEPT ![t] = "idle"]
    /\ UNCHANGED <<min_delay, max_delay, clock, w_wake, w_began>>
    /\ UNCHANGED notRateVars

\* time passes
Tick ==
    /\ clock < MaxClock
    /\ clock' = clock + 1
    /\ UNCHANGED <<min_delay, max_delay, last_request_time, w_pc, w_wake, w_returns,
                   w_began, w_calls>>
    /\ UNCHANGED notRateVars

(***************************************************************************)
(* Properties of RateLimiter                                               *)
(***************************************************************************)
\* C3: in single-threaded use, every wait() returns at least min_delay after
\* the wait() before it returned.
C3_RateLimiterLowerBound ==
    \A i \in 2..Len(w_returns) : w_returns[i] - w_returns[i - 1] >= min_delay

\* What the code does guarantee: the gap is at least the smaller of the two
\* configured delays, and at least min_delay when min_delay <= max_delay.
RateLowerBoundOfUniform ==
    \A i \in 2..Len(w_returns) :
        /\ w_returns[i] - w_returns[i - 1] >= IF min_delay <= max_delay THEN min_delay ELSE max_delay
        /\ w_returns[i] - w_returns[i - 1] >= 1

\* wait() number i returned less than min_delay after wait() number i - 1
TooSoon(i) == w_returns[i] - w_returns[i - 1] < min_delay

\* C18: two threads calling wait() on one RateLimiter without a lock can
\* return less than min_delay apart: the later call read last_request_time
\* before the earlier call wrote it.  With min_delay <= max_delay this is
\* the only way: two calls too close are calls of different threads of
\* which the later began before the earlier returned, and a call that began
\* after the call before it returned keeps the bound.
C18_NotThreadSafe ==
    min_delay <= max_delay =>
        \A i \in 2..Len(w_returns) :
            /\ TooSoon(i) =>
                  /\ w_calls[i].thread # w_calls[i - 1].thread
                  /\ w_calls[i].began < i - 1
            /\ w_calls[i].began = i - 1 => ~TooSoon(i)

\* both threads read last_request_time before either wrote it, and both
\* returned at the same time
C18_Witness ==
    /\ min_delay <= max_delay
    /\ Len(w_returns) >= 2
    /\ w_calls[1].began = 0 /\ w_calls[2].began = 0
    /\ w_calls[1].thread # w_calls[2].thread
    /\ TooSoon(2)
    /\ w_returns[2] = w_returns[1]

(***************************************************************************)
(* Tables (pandas DataFrames)                                              *)
(*   a table has a set of columns and a sequence of rows; a row keeps its  *)
(*   index label `idx` and has one cell per column.  Cells are written as  *)
(*   strings: NULL is NaN/None, "s:..." a str, "i:..." an int.             *)
(***************************************************************************)
NULL == "NULL"
Cells == {NULL, "s:1", "i:1"}
Columns == {"address", "price"}
MaxRows == 3

Row(i, c) == [idx |-> i, cells |-> c]
Table(cs, rs) == [columns |-> cs, rows |-> rs]

\* every table of at most n rows over the column set cs, index 1..len
TablesOver(cs, n) ==
    UNION {{Table(cs, [i \in 1..m |-> Row(i, f[i])]) : f \in [1..m -> [cs -> Cells]]} : m \in 0..n}

\* the rows of rs at the positions in keep, in their order
RowsAt(rs, keep) ==
    LET F[i \in 0..Len(rs)] ==
            IF i = 0 THEN <<>>
            ELSE IF i \in keep THEN Append(F[i - 1], rs[i]) ELSE F[i - 1]
    IN F[Len(rs)]

\* df.drop_duplicates(subset=[col], keep='first'); NaN equals NaN here
DropDuplicates_KeepLast(df, col) ==
    Table(df.columns,
          RowsAt(df.rows, {p \in 1..Len(df.rows) :
                             \A q \in (p + 1)..Len(df.rows) :
                                 df.rows[q].cells[col] # df.rows[p].cells[col]}))
DropDuplicates(df, col) ==
    Table(df.columns,
          RowsAt(df.rows, {p \in 1..Len(df.rows) :
                             \A q \in 1..(p - 1) :
                                 df.rows[q].cells[col] # df.rows[p].cells[col]}))

\* df.dropna(subset=cols)
DropNa_HowAll(df, cols) ==
    Table(df.columns,
          RowsAt(df.rows, {p \in 1..Len(df.rows) :
                             cols = {} \/ \E c \in cols : df.rows[p].cells[c] # NULL}))
DropNa(df, cols) ==
    Table(df.columns,
          RowsAt(df.rows, {p \in 1..Len(df.rows) :
                             \A c \in cols : df.rows[p].cells[c] # NULL}))

(***************************************************************************)
(* BaseScraper.validate_data (base_scraper.py 115-146)                     *)
(***************************************************************************)
NoTable == Table({}, <<>>)
Outcome(h, e, t) == [how |-> h, err |-> e, table |-> t]
NoOutcome == Outcome("none", "None", NoTable)
Returned(t) == Outcome("return", "None", t)
Raised(e) == Outcome("raise", e, NoTable)

\* df.empty: no row or no column
IsEmpty(df) == df.rows = <<>> \/ df.columns = {}

\* validate_data with lines 142 and 136 exchanged: dropna, then drop_duplicates
validate_data_DropNaFirst(df, required_columns) ==
    LET missing == required_columns \ df.columns IN
    IF missing # {} THEN Raised("ValueError")
    ELSE IF IsEmpty(df) THEN Returned(DropNa(df, required_columns))
    ELSE IF "address" \notin df.columns THEN Raised("KeyError")
    ELSE Returned(DropDuplicates(DropNa(df, required_columns), "address"))

\* the whole of validate_data: what it returns or raises.  drop_duplicates
\* returns a copy of an empty frame before it looks at subset, and raises
\* KeyError for a subset column the frame does not have otherwise.
validate_data(df, required_columns) ==
    LET missing == required_columns \ df.columns IN
    IF missing # {} THEN Raised("ValueError")
    ELSE IF IsEmpty(df) THEN Returned(DropNa(df, required_columns))
    ELSE IF "address" \notin df.columns THEN Raised("KeyError")
    ELSE Returned(DropNa(DropDuplicates(df, "address"), required_columns))

ValIdle ==
    /\ v_df = NoTable
    /\ v_req = {}
    /\ v_out = NoOutcome

ValInit ==
    /\ v_df \in UNION {TablesOver(cs, MaxRows) : cs \in SUBSET Columns}
    /\ v_req \in SUBSET Columns
    /\ v_out = NoOutcome

ValidateData ==
    /\ v_out = NoOutcome
    /\ v_out' = validate_data(v_df, v_req)
    /\ UNCHANGED <<v_df, v_req>>
    /\ UNCHANGED notValVars

\* C4: when the table has all required columns, the table returned has no
\* null in a required column and no two rows with the same address, and
\* every row it retains is a row of the input, unchanged, that is the first
\* row of the input with its address.
C4_ValidationInvariant ==
    (v_out.how = "return" /\ v_req \subseteq v_df.columns) =>
        LET out == v_out.table.rows IN
        /\ v_out.table.columns = v_df.columns
        /\ \A p \in 1..Len(out) : \A c \in v_req : out[p].cells[c] # NULL
        /\ "address" \in v_df.columns =>
              \A p, q \in 1..Len(out) :
                  out[p].cells["address"] = out[q].cells["address"] => p = q
        /\ \A p \in 1..Len(out) :
              /\ out[p].idx \in 1..Len(v_df.rows)
              /\ out[p] = v_df.rows[out[p].idx]
              /\ "address" \in v_df.columns =>
                    \A j \in 1..(out[p].idx - 1) :
                        v_df.rows[j].cells["address"] # out[p].cells["address"]
        /\ \A p, q \in 1..Len(out) : p < q => out[p].idx < out[q].idx

\* a table with a duplicated address and a null price elsewhere, validated
C4_Witness ==
    /\ v_out.how = "return"
    /\ v_req = {"address", "price"}
    /\ Len(v_df.rows) = 3
    /\ v_df.rows[1].cells["address"] = v_df.rows[2].cells["address"]
    /\ v_df.rows[1].cells["price"] # NULL
    /\ v_df.rows[2].cells["price"] # v_df.rows[1].cells["price"]
    /\ v_df.rows[3].cells["price"] = NULL
    /\ Len(v_out.table.rows) = 1
    /\ v_out.table.rows[1].idx = 1

\* row p of the table is the first row with its address
FirstOccurrence(df, p) ==
    \A q \in 1..(p - 1) : df.rows[q].cells["address"] # df.rows[p].cells["address"]
\* row p has no null in a required column
Complete(df, p, cols) == \A c \in cols : df.rows[p].cells[c] # NULL

\* C22: duplicates go before nulls: the result is the first-occurrence row
\* of each address, kept only if it has no null in a required column; an
\* address whose first occurrence has such a null is not in the result,
\* even when a later row with that address is complete.
C22_DedupThenDrop ==
    (v_out.how = "return" /\ "address" \in v_df.columns) =>
        LET out == v_out.table.rows IN
        /\ out = RowsAt(v_df.rows, {p \in 1..Len(v_df.rows) :
                                       FirstOccurrence(v_df, p) /\ Complete(v_df, p, v_req)})
        /\ \A p \in 1..Len(v_df.rows) :
              (FirstOccurrence(v_df, p) /\ ~Complete(v_df, p, v_req)) =>
                  \A r \in 1..Len(out) :
                      out[r].cells["address"] # v_df.rows[p].cells["address"]

\* the first row of an address has a null price, the second is complete,
\* and the address is gone
C22_Witness ==
    /\ v_out.how = "return"
    /\ v_req = {"address", "price"}
    /\ Len(v_df.rows) = 2
    /\ v_df.rows[1].cells = [c \in Columns |-> IF c = "address" THEN "s:1" ELSE NULL]
    /\ v_df.rows[2].cells = [c \in Columns |-> IF c = "address" THEN "s:1" ELSE "i:1"]
    /\ v_out.table.rows = <<>>

\* C16: validate_data raises ValueError exactly when a required column is
\* missing from the table, and in every other case raises nothing and
\* returns the deduplicated table without nulls in required columns.
C16_SchemaError ==
    v_out # NoOutcome =>
        LET missing == v_req \ v_df.columns IN
        /\ v_out = Raised("ValueError") <=> missing # {}
        /\ missing = {} =>
              /\ v_out.how = "return"
              /\ v_out.table.columns = v_df.columns
              /\ \A p \in 1..Len(v_out.table.rows) :
                    \A c \in v_req : v_out.table.rows[p].cells[c] # NULL

\* the errors validate_data does raise: ValueError for a missing required
\* column, checked first, and KeyError from drop_duplicates when a table
\* with rows has every required column but no address column
SchemaErrorFirst ==
    v_out # NoOutcome =>
        LET missing == v_req \ v_df.columns
            no_address == v_df.rows # <<>> /\ v_df.columns # {} /\ "address" \notin v_df.columns
        IN /\ v_out = Raised("ValueError") <=> missing # {}
           /\ v_out = Raised("KeyError") <=> (missing = {} /\ no_address)
           /\ v_out.how = "return" <=> (missing = {} /\ ~no_address)

(***************************************************************************)
(* Cache keys (helpers.py 74-86, base_scraper.py 185-202)                  *)
(*   a Python str is a sequence of characters; keyword arguments are a     *)
(*   sequence of <<name, value>> pairs with distinct names, in the order   *)
(*   the caller wrote them (dicts keep insertion order).                   *)
(***************************************************************************)
KwNames == <<"a", "b", "c">>
KwValues == {"i:1", "s:1", "i:2", "s:1_b=2"}
YearMonths == {"202611", "202612"}
ScraperClasses == {"RedfinScraper", "MLSScraper"}

\* str(v), as in f"{v}"
StrOf(v) ==
    CASE v = "i:1" -> <<"1">>
      [] v = "s:1" -> <<"1">>
      [] v = "i:2" -> <<"2">>
      [] v = "s:1_b=2" -> <<"1", "_", "b", "=", "2">>

\* repr(v), as in the str of a tuple or a list
ReprOf(v) ==
    CASE v = "i:1" -> <<"1">>
      [] v = "s:1" -> <<"'", "1", "'">>
      [] v = "i:2" -> <<"2">>
      [] v = "s:1_b=2" -> <<"'", "1", "_", "b", "=", "2", "'">>

\* str.lower() of a class name
Lower(cls) ==
    CASE cls = "RedfinScraper" -> "redfinscraper"
      [] cls = "MLSScraper" -> "mlsscraper"

RECURSIVE Join(_, _)
\* sep.join(parts)
Join(sep, parts) ==
    IF parts = <<>> THEN <<>>
    ELSE IF Len(parts) = 1 THEN parts[1]
    ELSE parts[1] \o sep \o Join(sep, Tail(parts))

NameRank(n) == CHOOSE i \in 1..Len(KwNames) : KwNames[i] = n

\* (k1, v1) < (k2, v2) for two items of one dict: the names differ, so the
\* comparison of the tuples is decided by the names
ItemLess(x, y) == NameRank(x[1]) < NameRank(y[1])

RECURSIVE Insert(_, _)
Insert(x, s) ==
    IF s = <<>> THEN <<x>>
    ELSE IF ItemLess(x, s[1]) THEN <<x>> \o s
    ELSE <<s[1]>> \o Insert(x, Tail(s))

RECURSIVE InsertionSort(_)
InsertionSort(items) ==
    IF items = <<>> THEN <<>>
    ELSE Insert(items[1], InsertionSort(Tail(items)))

\* sorted(kwargs.items())
Sorted_Unsorted(items) == items
Sorted(items) == InsertionSort(items)

\* hashlib.md5(s.encode()).hexdigest(): the digest is written as the string
\* it is the digest of (two strings have one digest when they are equal;
\* collisions of MD5 itself are not modelled)
Md5Hex(chars) == [md5_of |-> chars]
\* hexdigest()[:12]
First12(digest) == [md5_12_of |-> digest.md5_of]

\* str(args) for the tuple of positional arguments
ReprTuple(args) ==
    IF Len(args) = 1 THEN <<"(">> \o ReprOf(args[1]) \o <<",", ")">>
    ELSE <<"(">> \o Join(<<",", " ">>, [i \in 1..Len(args) |-> ReprOf(args[i])]) \o <<")">>

\* str(items) for a list of (name, value) tuples
ReprItems(items) ==
    <<"[">> \o
    Join(<<",", " ">>,
         [i \in 1..Len(items) |->
            <<"(", "'", items[i][1], "'", ",", " ">> \o ReprOf(items[i][2]) \o <<")">>])
    \o <<"]">>

\* helpers.generate_cache_key(*args, **kwargs)
helpers_key_string(args, kwargs) == ReprTuple(args) \o <<"_">> \o ReprItems(Sorted(kwargs))
helpers_generate_cache_key(args, kwargs) == Md5Hex(helpers_key_string(args, kwargs))

\* BaseScraper.generate_cache_key(**kwargs)
key_string(kwargs) ==
    LET items == Sorted(kwargs) IN
    Join(<<"_">>, [i \in 1..Len(items) |-> <<items[i][1], "=">> \o StrOf(items[i][2])])
generate_cache_key(cls, timestamp, kwargs) ==
    [cls |-> Lower(cls), timestamp |-> timestamp, key_hash |-> First12(Md5Hex(key_string(kwargs)))]

\* the orders in which the pairs of kw can be written
Reorderings(kw) ==
    {[i \in 1..Len(kw) |-> kw[f[i]]] :
        f \in {g \in [1..Len(kw) -> 1..Len(kw)] : \A i, j \in 1..Len(kw) : g[i] = g[j] => i = j}}

\* every way to write keyword arguments with distinct names
AllKwargs ==
    UNION {{[i \in 1..n |-> <<KwNames[f[i]], v[i]>>] :
              f \in {g \in [1..n -> 1..Len(KwNames)] : \A i, j \in 1..n : g[i] = g[j] => i = j},
              v \in [1..n -> KwValues]} : n \in 0..Len(KwNames)}

KeyIdle ==
    /\ k_args = <<>>
    /\ k_kwargs = <<>>
    /\ k_kwargs2 = <<>>
    /\ k_ym = "202611"
    /\ k_cls = "RedfinScraper"
    /\ k_keys = <<>>

KeyInit ==
    /\ k_args \in {<<>>, <<"i:1">>, <<"s:1", "i:2">>}
    /\ k_kwargs \in AllKwargs
    /\ k_kwargs2 \in Reorderings(k_kwargs)
    /\ k_ym \in YearMonths
    /\ k_cls \in ScraperClasses
    /\ k_keys = <<>>

\* both key functions, called with the two orders of the keyword arguments
GenerateKeys ==
    /\ k_keys = <<>>
    /\ k_keys' = [helpers1 |-> helpers_generate_cache_key(k_args, k_kwargs),
                  helpers2 |-> helpers_generate_cache_key(k_args, k_kwargs2),
                  scraper1 |-> generate_cache_key(k_cls, k_ym, k_kwargs),
                  scraper2 |-> generate_cache_key(k_cls, k_ym, k_kwargs2)]
    /\ UNCHANGED <<k_args, k_kwargs, k_kwargs2, k_ym, k_cls>>
    /\ UNCHANGED notKeyVars

\* C7: both key functions return the same key for the same keyword
\* arguments written in two orders (same class and year-month).
C7_KeyOrderIndependence ==
    k_keys # <<>> =>
        /\ k_keys.helpers1 = k_keys.helpers2
        /\ k_keys.scraper1 = k_keys.scraper2

\* (b=2, a=1) against (a=1, b=2)
C7_Witness ==
    /\ k_keys # <<>>
    /\ k_kwargs = <<<<"a", "i:1">>, <<"b", "i:2">>>>
    /\ k_kwargs2 = <<<<"b", "i:2">>, <<"a", "i:1">>>>
    /\ k_keys.scraper1.key_hash = First12(Md5Hex(<<"a", "=", "1", "_", "b", "=", "2">>))
    /\ k_keys.helpers1 = k_keys.helpers2

\* two calls of generate_cache_key of one scraper in one month, with any
\* keyword arguments, the second with at most one
KeyInitPairs ==
    /\ k_args = <<>>
    /\ k_kwargs \in AllKwargs
    /\ k_kwargs2 \in {kw \in AllKwargs : Len(kw) <= 1}
    /\ k_ym \in YearMonths
    /\ k_cls \in ScraperClasses
    /\ k_keys = <<>>

\* the dict a sequence of keyword arguments stands for
ParamSet(kw) == {kw[i] : i \in 1..Len(kw)}

\* C19: for one class and one year-month, two parameter sets that differ
\* in a name, a value or the type of a value never have the same key
\* string, and so never the same cache key.
C19_KeyUniqueness ==
    (k_keys # <<>> /\ ParamSet(k_kwargs) # ParamSet(k_kwargs2)) =>
        /\ key_string(k_kwargs) # key_string(k_kwargs2)
        /\ k_keys.scraper1 # k_keys.scraper2

\* what decides the key: the sorted names and the str() of the values
KeyStringDecidesKey ==
    k_keys # <<>> =>
        (k_keys.scraper1 = k_keys.scraper2 <=> key_string(k_kwargs) = key_string(k_kwargs2))

(***************************************************************************)
(* The CSV cache file (base_scraper.py 98, 112)                            *)
(***************************************************************************)
\* how to_csv writes a cell: NaN as the empty field, a str and an int alike
CsvField(cell) ==
    CASE cell = NULL -> ""
      [] cell = "s:1" -> "1"
      [] cell = "i:1" -> "1"

\* how read_csv reads a field back: the empty field is NaN, digits are an int
ParseField(field) ==
    CASE field = "" -> NULL
      [] field = "1" -> "i:1"

\* data.to_csv(cache_file, index=False): the index labels are not written
ToCsv(t) ==
    [header |-> t.columns,
     lines |-> [i \in 1..Len(t.rows) |-> [c \in t.columns |-> CsvField(t.rows[i].cells[c])]]]

\* pd.read_csv(cache_file): the rows get a fresh RangeIndex
ReadCsv(csv) ==
    Table(csv.header,
          [i \in 1..Len(csv.lines) |-> Row(i, [c \in csv.header |-> ParseField(csv.lines[i][c])])])

(***************************************************************************)
(* BaseScraper: get_cached_data, save_to_cache, scrape                     *)
(*   (base_scraper.py 71-113, 204-234)                                     *)
(***************************************************************************)
TicksPerDay == 2
MaxNow == 4
MaxTtl == 1
MaxCalls == 2

MonthEndsAt == 3

ScraperClass == "RedfinScraper"
\* datetime.now().strftime("%Y%m") at time t: the month ends at MonthEndsAt
YearMonthAt(t) == IF t < MonthEndsAt THEN "202611" ELSE "202612"
\* the keyword arguments scrape() is called with
ScrapeParams == {<<<<"a", "i:1">>, <<"b", "i:2">>>>, <<<<"a", "i:2">>>>}
\* what a parse_response may return: tables with its standardized columns;
\* one holds an int, one a str, one a null in a row whose index label is
\* not the first of a RangeIndex (as after a drop_duplicates)
OneRow(i, v) == Table({"address"}, <<Row(i, [c \in {"address"} |-> v])>>)
ParseTables == {OneRow(1, "i:1"), OneRow(1, "s:1"), OneRow(2, NULL)}

CacheKeys == {generate_cache_key(ScraperClass, ym, p) : ym \in YearMonths, p \in ScrapeParams}

File(csv, t) == [exists |-> TRUE, content |-> csv, mtime |-> t]
NoFile == [exists |-> FALSE, content |-> ToCsv(NoTable), mtime |-> 0]

\* (datetime.now() - datetime.fromtimestamp(st_mtime)).days
FileAgeDays(t, mtime) == (t - mtime) \div TicksPerDay

\* file_age_days > self.cache_ttl_days
IsStale_Geq(age_days, ttl) == age_days >= ttl
IsStale(age_days, ttl) == age_days > ttl

\* get_cached_data(cache_key): NoOutcome stands for the None of a miss
get_cached_data(cache_key) ==
    IF ~cache_enabled THEN NoOutcome
    ELSE IF ~files[cache_key].exists THEN NoOutcome
    ELSE IF IsStale(FileAgeDays(now, files[cache_key].mtime), cache_ttl_days) THEN NoOutcome
    ELSE Returned(ReadCsv(files[cache_key].content))

\* what get_cached_data(cache_key) does to the files of cache_dir: it calls
\* exists(), stat() and pd.read_csv only
FilesAfterGet_DeleteStale(cache_key) ==
    IF /\ cache_enabled
       /\ files[cache_key].exists
       /\ IsStale(FileAgeDays(now, files[cache_key].mtime), cache_ttl_days)
    THEN [files EXCEPT ![cache_key] = NoFile]
    ELSE files
FilesAfterGet(cache_key) == files

\* save_to_cache(data, cache_key): the files of cache_dir after the call
save_to_cache_Nothing(data, cache_key) == files
save_to_cache_IfAbsent(data, cache_key) ==
    IF ~cache_enabled \/ files[cache_key].exists THEN files
    ELSE [files EXCEPT ![cache_key] = File(ToCsv(data), now)]
save_to_cache(data, cache_key) ==
    IF ~cache_enabled THEN files
    ELSE [files EXCEPT ![cache_key] = File(ToCsv(data), now)]

NoKey == generate_cache_key(ScraperClass, "", <<>>)
Call(n, kwargs, use_cache, key) ==
    [n |-> n, kwargs |-> kwargs, use_cache |-> use_cache, cache_key |-> key,
     looked |-> FALSE, l_exists |-> FALSE, l_age |-> 0, hit |-> FALSE,
     fetches |-> 0, df |-> NoTable, saved |-> FALSE, result |-> NoOutcome]
NoCall == Call(0, <<>>, FALSE, NoKey)
\* what is remembered of the call before the last one
Summary(c) ==
    [n |-> c.n, kwargs |-> c.kwargs, use_cache |-> c.use_cache, cache_key |-> c.cache_key,
     hit |-> c.hit, fetches |-> c.fetches, saved |-> c.saved, result |-> c.result]

ScrIdle ==
    /\ cache_enabled = FALSE
    /\ cache_ttl_days = 0
    /\ files = [k \in CacheKeys |-> NoFile]
    /\ now = 0
    /\ s_pc = "idle"
    /\ s_call = NoCall
    /\ s_prev = Summary(NoCall)
    /\ s_events = <<>>

\* BaseScraper.__init__; cache_dir is empty or holds one file an earlier
\* run of the program left there
ScrInit ==
    /\ cache_enabled \in BOOLEAN
    /\ cache_ttl_days \in 0..MaxTtl
    /\ \/ files = [k \in CacheKeys |-> NoFile]
       \/ \E p \in ScrapeParams :
             files = [[j \in CacheKeys |-> NoFile]
                        EXCEPT ![generate_cache_key(ScraperClass, "202611", p)] =
                                    File(ToCsv(OneRow(1, "i:1")), 0)]
    /\ now = 0
    /\ s_pc = "idle"
    /\ s_call = NoCall
    /\ s_prev = Summary(NoCall)
    /\ s_events = <<>>

Ev(op, arg) == [op |-> op, arg |-> arg]

\* lines 219-222: where scrape goes after the cache check
AfterCacheCheck_AlwaysFetch(use_cache, cached) == "fetch"
AfterCacheCheck(use_cache, cached) ==
    IF use_cache /\ cached # NoOutcome THEN "idle" ELSE "fetch"

\* an exception of fetch_data or parse_response is not caught in scrape
AfterRaise_Continue(pc) == IF pc = "fetch" THEN "parse" ELSE "save"
AfterRaise(pc) == "idle"

\* line 232: the table scrape hands to save_to_cache is parse_response's
StoredTable_Validated(df) == validate_data(df, {"address"}).table
StoredTable(df) == df

\* scrape(use_cache, **kwargs), lines 215-222: the key and the cache check
ScrapeStart ==
    /\ s_pc = "idle"
    /\ s_call.n < MaxCalls
    /\ \E kwargs \in ScrapeParams, use_cache \in BOOLEAN :
         LET cache_key == generate_cache_key(ScraperClass, YearMonthAt(now), kwargs)
             c == Call(s_call.n + 1, kwargs, use_cache, cache_key)
             cached == get_cached_data(cache_key)
             looked == [c EXCEPT !.looked = TRUE,
                                 !.l_exists = files[cache_key].exists,
                                 !.l_age = IF files[cache_key].exists
                                           THEN now - files[cache_key].mtime ELSE 0,
                                 !.hit = (cached # NoOutcome)]
         IN /\ s_prev' = Summary(s_call)
            /\ s_pc' = AfterCacheCheck(use_cache, cached)
            /\ IF use_cache
               THEN /\ files' = FilesAfterGet(cache_key)
                    /\ IF cached # NoOutcome
                       THEN /\ s_call' = [looked EXCEPT !.result = cached]
                            /\ s_events' = <<Ev("get_cached_data", "hit")>>
                       ELSE /\ s_call' = looked
                            /\ s_events' = <<Ev("get_cached_data", "miss")>>
               ELSE /\ files' = files
                    /\ s_call' = c
                    /\ s_events' = <<>>
    /\ UNCHANGED <<cache_enabled, cache_ttl_days, now>>
    /\ UNCHANGED notScrVars

\* line 226: raw_response = self.fetch_data(**kwargs), which may raise
ScrapeFetch ==
    /\ s_pc = "fetch"
    /\ \E ok \in BOOLEAN :
         IF ok
         THEN /\ s_call' = [s_call EXCEPT !.fetches = @ + 1]
              /\ s_events' = Append(s_events, Ev("fetch_data", "raw"))
              /\ s_pc' = "parse"
         ELSE /\ s_call' = [s_call EXCEPT !.fetches = @ + 1, !.result = Raised("RequestException")]
              /\ s_events' = Append(s_events, Ev("fetch_data", "raise"))
              /\ s_pc' = AfterRaise(s_pc)
    /\ UNCHANGED <<cache_enabled, cache_ttl_days, files, now, s_prev>>
    /\ UNCHANGED notScrVars

\* line 229: df = self.parse_response(raw_response), which may raise
ScrapeParse ==
    /\ s_pc = "parse"
    /\ \/ \E t \in ParseTables :
            /\ s_call' = [s_call EXCEPT !.df = t]
            /\ s_events' = Append(s_events, Ev("parse_response", "raw"))
            /\ s_pc' = "save"
       \/ /\ s_call' = [s_call EXCEPT !.result = Raised("ValueError")]
          /\ s_events' = Append(s_events, Ev("parse_response", "raise"))
          /\ s_pc' = AfterRaise(s_pc)
    /\ UNCHANGED <<cache_enabled, cache_ttl_days, files, now, s_prev>>
    /\ UNCHANGED notScrVars

\* lines 232-234: self.save_to_cache(df, cache_key); return df
ScrapeSave ==
    /\ s_pc = "save"
    /\ files' = save_to_cache(StoredTable(s_call.df), s_call.cache_key)
    /\ s_call' = [s_call EXCEPT !.saved = TRUE, !.result = Returned(s_call.df)]
    /\ s_events' = Append(s_events, Ev("save_to_cache", "df"))
    /\ s_pc' = "idle"
    /\ UNCHANGED <<cache_enabled, cache_ttl_days, now, s_prev>>
    /\ UNCHANGED notScrVars

\* time passes, half a day: between two calls of scrape() or while
\* fetch_data waits for the network
TimePasses ==
    /\ now < MaxNow
    /\ s_pc = "fetch" \/ (s_pc = "idle" /\ s_call.n < MaxCalls)
    /\ now' = now + 1
    /\ UNCHANGED <<cache_enabled, cache_ttl_days, files, s_pc, s_call, s_prev, s_events>>
    /\ UNCHANGED notScrVars

(***************************************************************************)
(* Properties of the cache                                                 *)
(***************************************************************************)
\* two successive calls that both returned a table, with use_cache=True and
\* the same keyword arguments
TwoCachedCalls ==
    /\ s_pc = "idle"
    /\ s_prev.n > 0
    /\ s_prev.use_cache /\ s_call.use_cache
    /\ s_prev.kwargs = s_call.kwargs
    /\ s_prev.result.how = "return" /\ s_call.result.how = "return"

\* C1: two successive calls scrape(use_cache=True, **p) with the same p call
\* fetch_data exactly once in total and the second returns a table equal to
\* the first's.
C1_CacheIdempotence ==
    TwoCachedCalls =>
        /\ s_prev.fetches + s_call.fetches = 1
        /\ s_call.result.table = s_prev.result.table

\* C1 amended: with caching enabled, when the first call found no fresh
\* entry, both calls fall in the same year-month and the second begins no
\* more than cache_ttl_days days after the first stored its table, the first
\* call fetches once, the second finds the file, does not fetch, and returns
\* what read_csv reads from the file to_csv wrote of the first call's table.
C1_CacheIdempotenceEnabled ==
    (/\ TwoCachedCalls
     /\ cache_enabled
     /\ ~s_prev.hit
     /\ s_prev.cache_key = s_call.cache_key
     /\ s_call.l_exists => s_call.l_age <= cache_ttl_days * TicksPerDay)
    => /\ s_prev.fetches = 1
       /\ s_call.l_exists
       /\ s_call.hit
       /\ s_call.fetches = 0
       /\ s_call.result.table = ReadCsv(ToCsv(s_prev.result.table))
       /\ s_prev.result.table = OneRow(1, "i:1") => s_call.result.table = s_prev.result.table
       /\ s_prev.result.table = OneRow(1, "s:1") => s_call.result.table = OneRow(1, "i:1")
       /\ s_prev.result.table = OneRow(2, NULL) => s_call.result.table = OneRow(1, NULL)

\* the second call, a day after the first, returns the str "1" as the int 1
C1_Witness ==
    /\ TwoCachedCalls
    /\ cache_enabled
    /\ cache_ttl_days = 1
    /\ ~s_prev.hit
    /\ s_prev.fetches = 1
    /\ s_prev.result.table = OneRow(1, "s:1")
    /\ s_call.hit
    /\ s_call.l_age = TicksPerDay
    /\ s_call.fetches = 0
    /\ s_call.result.table = OneRow(1, "i:1")

\* the last call of scrape() looked into the cache and the file was there
LookedAtFile == s_call.looked /\ cache_enabled /\ s_call.l_exists

\* C5: with caching enabled, a file exactly cache_ttl_days days old is
\* returned (and scrape does not fetch); a file cache_ttl_days + 1 days old
\* is a miss, after which scrape fetches.
C5_TtlBoundary ==
    LookedAtFile =>
        /\ s_call.l_age = cache_ttl_days * TicksPerDay =>
              /\ s_call.hit
              /\ s_pc = "idle"
              /\ s_call.fetches = 0
              /\ s_call.result = Returned(ReadCsv(files[s_call.cache_key].content))
        /\ s_call.l_age = (cache_ttl_days + 1) * TicksPerDay =>
              /\ ~s_call.hit
              /\ s_pc = "fetch" \/ s_call.fetches = 1

C5_Witness ==
    /\ LookedAtFile
    /\ cache_ttl_days = 1
    /\ s_call.l_age = TicksPerDay
    /\ s_call.hit
    /\ s_call.result.how = "return"

\* reachable as well: the file one day older than the TTL, refetched
C5_StaleReached ==
    /\ LookedAtFile
    /\ s_call.l_age = (cache_ttl_days + 1) * TicksPerDay
    /\ s_call.fetches = 1
    /\ s_call.result.how = "return"

\* C6 (its "only if" half and its last clause): get_cached_data returns a
\* table only for a file that exists and whose age is at most cache_ttl_days
\* days; an older file, be it by less than a day, is never returned.
C6_Staleness ==
    (s_call.looked /\ s_call.hit) =>
        /\ s_call.l_exists
        /\ s_call.l_age <= cache_ttl_days * TicksPerDay

\* what the code does: the age is counted in whole days
StalenessInWholeDays ==
    s_call.looked =>
        (s_call.hit <=> (/\ cache_enabled
                         /\ s_call.l_exists
                         /\ s_call.l_age < (cache_ttl_days + 1) * TicksPerDay))

(***************************************************************************)
(* Properties of scrape                                                    *)
(***************************************************************************)
\* the operations of s, in order
Ops(s) == [i \in 1..Len(s) |-> s[i].op]
IsPrefix(s, t) == Len(s) <= Len(t) /\ \A i \in 1..Len(s) : s[i] = t[i]

\* what a call that finds nothing to return from the cache does, in order
MissEvents ==
    (IF s_call.use_cache THEN <<Ev("get_cached_data", "miss")>> ELSE <<>>) \o
    <<Ev("fetch_data", "raw"), Ev("parse_response", "raw"), Ev("save_to_cache", "df")>>

\* the last call of scrape has returned a table
CallReturned == s_call.n > 0 /\ s_pc = "idle" /\ s_call.result.how = "return"

Stored == s_call.n > 0 /\ s_call.saved

\* C14: on a miss scrape goes through FETCH, PARSE, VALIDATE, CACHE_STORE,
\* so the table written to the cache has passed validation: validate_data
\* ran between parse_response and save_to_cache and would not change it.
C14_StateMachine ==
    Stored =>
        /\ \E i \in 1..Len(s_events) : s_events[i].op = "validate_data"
        /\ validate_data(s_call.df, s_call.df.columns) = Returned(s_call.df)

\* one step of scrape after the cache check: fetch, then parse, then the
\* store, nothing in between; the table stored is parse_response's, as is
C14_FetchParseStore ==
    [][/\ s_pc = "fetch" => s_pc' \in {"fetch", "parse", "idle"}
       /\ s_pc = "parse" => s_pc' \in {"save", "idle"}
       /\ s_pc = "save"  => s_pc' = "idle"
       /\ s_pc = "parse" /\ s_pc' = "save" => s_call'.df \in ParseTables
       /\ s_pc = "save" =>
             /\ Ops(s_events') = Ops(MissEvents)
             /\ s_call'.df = s_call.df
             /\ s_call'.result = Returned(s_call.df)
             /\ cache_enabled =>
                   files'[s_call.cache_key].content = ToCsv(s_call.df)]_vars

\* a table with a null address is in the cache
C14_Witness ==
    /\ Stored /\ cache_enabled
    /\ s_call.df = OneRow(2, NULL)
    /\ files[s_call.cache_key].content = ToCsv(OneRow(2, NULL))
    /\ validate_data(s_call.df, s_call.df.columns) # Returned(s_call.df)

\* the step in which save_to_cache runs
SaveStep == s_pc = "save" /\ s_pc' = "idle"

\* C15: after save_to_cache(table, key) the entry of key holds table,
\* whatever it held and whatever the scraper's configuration, and the
\* entries of the other keys are as before.
C15_UnconditionalStore ==
    [][SaveStep =>
          files' = [files EXCEPT ![s_call.cache_key] = File(ToCsv(s_call.df), now)]]_vars

\* with caching enabled the file of key is overwritten by the CSV of table
\* and no other file changes; with caching disabled no file changes
C15_StoreWhenEnabled ==
    [][SaveStep =>
          IF cache_enabled
          THEN files' = [files EXCEPT ![s_call.cache_key] = File(ToCsv(s_call.df), now)]
          ELSE files' = files]_vars

\* a stale file was overwritten by a different table, later
C15_Witness ==
    /\ Stored /\ cache_enabled
    /\ s_call.n = 1 /\ s_call.l_exists
    /\ s_call.df = OneRow(1, "s:1")
    /\ files[s_call.cache_key] = File(ToCsv(OneRow(1, "s:1")), now)
    /\ now > 0

\* the step in which scrape calls get_cached_data
LookupStep == s_pc = "idle" /\ s_call'.n = s_call.n + 1 /\ s_call'.use_cache

\* C17: get_cached_data leaves every cache file, its content and its mtime
\* as they were, on a hit, on a miss and on a stale entry; a file stays
\* until a save_to_cache under its key overwrites it.
C17_LazyInvalidation ==
    [][/\ LookupStep => files' = files
       /\ \A k \in CacheKeys :
             /\ files[k].exists => files'[k].exists
             /\ files'[k] # files[k] => (SaveStep /\ k = s_call.cache_key)]_vars

\* a stale file was looked at and is still there
C17_Witness ==
    /\ s_pc = "fetch" /\ LookedAtFile /\ ~s_call.hit
    /\ IsStale(FileAgeDays(now, files[s_call.cache_key].mtime), cache_ttl_days)
    /\ files[s_call.cache_key] = File(ToCsv(OneRow(1, "i:1")), 0)

\* the last call of scrape ended with an exception
CallRaised == s_call.n > 0 /\ s_call.result.how = "raise"

\* C20: when fetch_data or parse_response raises, scrape ends there with
\* that exception, save_to_cache is not called and no file changes; no call
\* but one that returns changes a file; a following call with the same key
\* misses again if the failed call had missed.
C20_FailureLeavesCache ==
    /\ [](CallRaised =>
            /\ s_pc = "idle"
            /\ ~s_call.saved
            /\ \A i \in 1..Len(s_events) : s_events[i].op # "save_to_cache"
            /\ Last(s_events).arg = "raise"
            /\ s_call.result.err \in {"RequestException", "ValueError"})
    /\ []((/\ s_prev.result.how = "raise" /\ s_prev.use_cache
           /\ s_call.use_cache /\ s_call.cache_key = s_prev.cache_key) =>
            (~s_call.hit /\ (s_pc = "fetch" \/ s_call.fetches = 1)))
    /\ [][/\ (s_call'.result.how = "raise" /\ s_call.result.how # "raise") =>
                (files' = files /\ s_pc' = "idle")
          /\ files' # files => s_call'.result.how = "return"]_vars

\* parse_response raised after a fetch, and the next call fetches again
C20_Witness ==
    /\ s_prev.result = Raised("ValueError") /\ s_prev.use_cache /\ s_prev.fetches = 1
    /\ s_call.use_cache /\ s_call.cache_key = s_prev.cache_key
    /\ cache_enabled
    /\ s_call.fetches = 1 /\ s_call.result.how = "return"

\* a table as a later scrape reads it from the cache file it was written to
AsCached(t) == ReadCsv(ToCsv(t))

\* the last call was scrape(use_cache=False, ...): it made no cache check,
\* it called fetch_data, and what it returned is in the cache
ForcedRefresh ==
    (s_call.n > 0 /\ ~s_call.use_cache) =>
        /\ ~s_call.looked /\ ~s_call.hit
        /\ \A i \in 1..Len(s_events) : s_events[i].op # "get_cached_data"
        /\ s_pc # "fetch" => s_call.fetches = 1
        /\ (CallReturned /\ cache_enabled) =>
              files[s_call.cache_key].content = ToCsv(s_call.df)

\* the last call hit the cache and in the call before it, with the same
\* parameters, fetch_data was called and returned a response
HitAfterFetch ==
    /\ s_call.hit
    /\ s_prev.n > 0 /\ s_prev.kwargs = s_call.kwargs
    /\ s_prev.fetches = 1 /\ s_prev.result # Raised("RequestException")

\* C21: with caching enabled scrape(use_cache=False, **p) reads no cache,
\* always fetches and overwrites the entry of p; a later hit for p returns
\* the table of the most recent fetch for p, never an older one.
C21_ForcedRefreshStores ==
    /\ ForcedRefresh
    /\ HitAfterFetch =>
          /\ s_prev.result.how = "return"
          /\ s_call.result = Returned(AsCached(s_prev.result.table))

\* a hit returns the table of the most recent call for p that fetched,
\* parsed and returned, as read back from the CSV; a call in which
\* parse_response raised stored nothing, and a hit after it returns the
\* entry that was there before that fetch
C21_RefreshOfLastReturn ==
    /\ ForcedRefresh
    /\ (HitAfterFetch /\ s_prev.result.how = "return") =>
          /\ s_call.cache_key = s_prev.cache_key
          /\ s_call.result = Returned(AsCached(s_prev.result.table))
    /\ (HitAfterFetch /\ s_prev.result.how = "raise") =>
          /\ s_prev.result = Raised("ValueError") /\ ~s_prev.saved
          /\ s_call.result = Returned(ReadCsv(files[s_call.cache_key].content))

\* a forced refresh replaced the file that was in the cache, and the next
\* call was served the new table
C21_Witness ==
    /\ HitAfterFetch /\ ~s_prev.use_cache
    /\ s_prev.result = Returned(OneRow(2, NULL))
    /\ s_call.result = Returned(AsCached(OneRow(2, NULL)))
    /\ s_call.result # Returned(AsCached(OneRow(1, "i:1")))
    /\ files[s_call.cache_key].mtime > 0

(***************************************************************************)
(* SessionManager in a with statement (utils.py 92-174)                    *)
(*   with SessionManager(timeout=...) as s: <block>                        *)
(***************************************************************************)
MaxBodyOps == 3

\* the timeouts a caller passes
Timeouts == {10, 30}
\* exceptions a block may end with: one of the retried get, others
BlockErrors == {"RequestException", "ValueError", "KeyboardInterrupt"}

\* self.session.close(): the adapters drop their pooled connections
SessionAfterClose_StaysOpen(session) == session
SessionAfterClose(session) == "closed"

\* self.session.get(...): a closed requests.Session opens new connections
SessionAfterGet(session) == "open"

\* what __exit__ returns: nothing, that is None, which is false for the
\* with statement, so the exception of the block is raised again
ExitSuppresses_True == TRUE
ExitSuppresses == FALSE

SessIdle ==
    /\ m_pc = "new"
    /\ m_session = "none"
    /\ m_timeout = 0
    /\ m_body = <<>>
    /\ m_exc = "none"
    /\ m_out = "none"

\* SessionManager.__init__ and __enter__ are done: the block is entered
SessInit ==
    /\ m_pc = "body"
    /\ m_session = "open"
    /\ m_timeout \in Timeouts
    /\ m_body = <<>>
    /\ m_exc = "none"
    /\ m_out = "none"

\* the block calls s.get(url) and it returns a response
BodyGet ==
    /\ m_pc = "body"
    /\ Len(m_body) < MaxBodyOps
    /\ m_session' = SessionAfterGet(m_session)
    /\ m_body' = Append(m_body, "get")
    /\ UNCHANGED <<m_pc, m_timeout, m_exc, m_out>>
    /\ UNCHANGED notSessVars

\* the block calls s.close() itself
BodyClose ==
    /\ m_pc = "body"
    /\ Len(m_body) < MaxBodyOps
    /\ m_session' = SessionAfterClose(m_session)
    /\ m_body' = Append(m_body, "close")
    /\ UNCHANGED <<m_pc, m_timeout, m_exc, m_out>>
    /\ UNCHANGED notSessVars

\* the block raises (s.get after its retries, or any other statement)
BodyRaises ==
    /\ m_pc = "body"
    /\ \E e \in BlockErrors : m_exc' = e
    /\ m_pc' = "exit"
    /\ UNCHANGED <<m_session, m_timeout, m_body, m_out>>
    /\ UNCHANGED notSessVars

\* the block runs to its end
BodyEnds ==
    /\ m_pc = "body"
    /\ m_pc' = "exit"
    /\ UNCHANGED <<m_session, m_timeout, m_body, m_exc, m_out>>
    /\ UNCHANGED notSessVars

\* __exit__(exc_type, exc_val, exc_tb): self.close()
ExitCloses ==
    /\ m_pc = "exit"
    /\ m_session' = SessionAfterClose(m_session)
    /\ m_pc' = "closed"
    /\ UNCHANGED <<m_timeout, m_body, m_exc, m_out>>
    /\ UNCHANGED notSessVars

\* __exit__ returns; the with statement ends or raises the block's exception
ExitReturns ==
    /\ m_pc = "closed"
    /\ m_out' = IF m_exc = "none" \/ ExitSuppresses THEN "normal" ELSE m_exc
    /\ m_pc' = "caller"
    /\ UNCHANGED <<m_session, m_timeout, m_body, m_exc>>
    /\ UNCHANGED notSessVars

\* C11: whenever the with statement has been left, normally or by an
\* exception, the session is closed; the caller gets nothing before the
\* close, and an exception raised in the block is the one the caller gets.
C11_ScopedRelease ==
    /\ m_out # "none" => (m_pc = "caller" /\ m_session = "closed")
    /\ m_pc = "caller" =>
          /\ m_session = "closed"
          /\ m_exc # "none" => m_out = m_exc
          /\ m_exc = "none" => m_out = "normal"

\* a block that closed the session, used it again and then raised
C11_Witness ==
    /\ m_pc = "caller"
    /\ m_body = <<"get", "close", "get">>
    /\ m_exc = "ValueError"
    /\ m_out = "ValueError"
    /\ m_session = "closed"

(***************************************************************************)
(* setup_logger (logger.py 12-63)                                          *)
(***************************************************************************)
LoggerNames == {"scraper", "utils"}
\* the level argument; a logger nobody configured has NOTSET
Levels == {"DEBUG", "INFO", "WARNING"}
\* the log_file argument: None, the empty string, or a path
LogFiles == {"None", "", "logs/avm.log", "logs/b.log"}

Logger(level, handlers) == [level |-> level, handlers |-> handlers]
NewLogger == Logger("NOTSET", <<>>)
ConsoleHandler == [kind |-> "StreamHandler", file |-> "stdout"]
FileHandler(f) == [kind |-> "RotatingFileHandler", file |-> f]

\* if log_file: (None and "" are false)
IsSet(log_file) == log_file \notin {"None", ""}

\* logger.setLevel(getattr(logging, level.upper())), line 33: it runs
\* before the handlers are looked at
LevelAfterSetLevel(logger, level) == level

\* lines 36-61: the handlers of the logger after the call
HandlersAfterSetup(logger, log_file) ==
    IF logger.handlers # <<>> THEN logger.handlers
    ELSE <<ConsoleHandler>> \o (IF IsSet(log_file) THEN <<FileHandler(log_file)>> ELSE <<>>)

NoLogCall == [name |-> "", level |-> "NOTSET", log_file |-> "None", before |-> NewLogger]

LogIdle ==
    /\ loggers = [n \in LoggerNames |-> NewLogger]
    /\ l_call = NoLogCall

\* no logger has been configured
LogInit ==
    /\ loggers = [n \in LoggerNames |-> NewLogger]
    /\ l_call = NoLogCall

\* setup_logger(name, log_file, level)
SetupLogger ==
    /\ \E name \in LoggerNames, level \in Levels, log_file \in LogFiles :
         /\ loggers' = [loggers EXCEPT ![name] =
                           Logger(LevelAfterSetLevel(loggers[name], level),
                                  HandlersAfterSetup(loggers[name], log_file))]
         /\ l_call' = [name |-> name, level |-> level, log_file |-> log_file,
                       before |-> loggers[name]]
    /\ UNCHANGED notLogVars

\* the last call found handlers on its logger
RepeatedSetup == l_call.name # "" /\ l_call.before.handlers # <<>>

\* C12: a call of setup_logger for a logger that already has handlers leaves
\* its handler list and its level as they were, whatever the arguments.
C12_SetupIdempotent ==
    RepeatedSetup =>
        /\ loggers[l_call.name].handlers = l_call.before.handlers
        /\ loggers[l_call.name].level = l_call.before.level

\* what the code does keep: the handlers of the logger, and every other
\* logger; the level becomes the level argument of the repeated call
SetupKeepsHandlers ==
    /\ RepeatedSetup =>
          /\ loggers[l_call.name].handlers = l_call.before.handlers
          /\ loggers[l_call.name].level = l_call.level
    /\ \A n \in LoggerNames :
          /\ Len(loggers[n].handlers) <= 2
          /\ loggers[n].handlers # <<>> => loggers[n].handlers[1] = ConsoleHandler

(***************************************************************************)
(* Specifications                                                          *)
(***************************************************************************)
InitRetry == RetryInit /\ RateIdle /\ ValIdle /\ KeyIdle /\ ScrIdle /\ SessIdle /\ LogIdle
NextRetry == FuncReturns \/ FuncRaises \/ RaiseLast
SpecRetry == InitRetry /\ [][NextRetry]_vars

InitRate == RateInit /\ RetryIdle /\ ValIdle /\ KeyIdle /\ ScrIdle /\ SessIdle /\ LogIdle
NextRate == WaitBegin(1) \/ WaitWake(1) \/ WaitStamp(1) \/ Tick
SpecRate == InitRate /\ [][NextRate]_vars

\* two threads share one RateLimiter
MaxWaits == 3
WaitsBegun == Len(w_returns) + Cardinality({t \in Threads : w_pc[t] # "idle"})
NextRateThreads ==
    \/ \E t \in Threads : WaitsBegun < MaxWaits /\ WaitBegin(t)
    \/ \E t \in Threads : WaitWake(t)
    \/ \E t \in Threads : WaitStamp(t)
    \/ Tick
SpecRateThreads == InitRate /\ [][NextRateThreads]_vars

InitValidate == ValInit /\ RetryIdle /\ RateIdle /\ KeyIdle /\ ScrIdle /\ SessIdle /\ LogIdle
NextValidate == ValidateData
SpecValidate == InitValidate /\ [][NextValidate]_vars

InitKey == KeyInit /\ RetryIdle /\ RateIdle /\ ValIdle /\ ScrIdle /\ SessIdle /\ LogIdle
NextKey == GenerateKeys
SpecKey == InitKey /\ [][NextKey]_vars

InitScrape == ScrInit /\ RetryIdle /\ RateIdle /\ ValIdle /\ KeyIdle /\ SessIdle /\ LogIdle
NextScrape == ScrapeStart \/ ScrapeFetch \/ ScrapeParse \/ ScrapeSave \/ TimePasses
SpecScrape == InitScrape /\ [][NextScrape]_vars

InitSession == SessInit /\ RetryIdle /\ RateIdle /\ ValIdle /\ KeyIdle /\ ScrIdle /\ LogIdle
NextSession == BodyGet \/ BodyClose \/ BodyRaises \/ BodyEnds \/ ExitCloses \/ ExitReturns
SpecSession == InitSession /\ [][NextSession]_vars

InitLogger == LogInit /\ RetryIdle /\ RateIdle /\ ValIdle /\ KeyIdle /\ ScrIdle /\ SessIdle
NextLogger == SetupLogger
SpecLogger == InitLogger /\ [][NextLogger]_vars

InitKeyPairs == KeyInitPairs /\ RetryIdle /\ RateIdle /\ ValIdle /\ ScrIdle /\ SessIdle /\ LogIdle
NextKeyPairs == GenerateKeys
SpecKeyPairs == InitKeyPairs /\ [][NextKeyPairs]_vars

====
